---------------------------- MODULE Spec2Model ----------------------------
(***************************************************************************)
(* Model of doc/_extensions/zephyr/boardselector/static/boardselector.mjs: *)
(* the Kconfig symbol search (doSearch, doSearchFromURL,                   *)
(* setupKconfigSearch) with the browser session history it talks to, and   *)
(* the checkbox_select filter-chip widget.                                 *)
(*                                                                         *)
(* Strings are sequences of one-character strings, so that the code's      *)
(* string operations (regular-expression test, replace, concatenation)     *)
(* are computed and not assumed.                                           *)
(***************************************************************************)
EXTENDS Integers, Sequences, FiniteSets, TLC

\* ------------------------------------------------------------------------
\* Program constants and bounds
\* ------------------------------------------------------------------------

\* const MAX_RESULTS = 10;
MAX_RESULTS == 10

\* Longest term typed into the input field (SpecEval).
MaxTermLen == 2

\* Largest dataset loaded.
MaxDbLen == 25

\* Most entries of the session history (Spec).
MaxHist == 2

\* Most pages the buttons move away from the first one, in either direction
\* (a stale enabled button can be clicked without end).
MaxPages == 2

\* `let searchOffset;` holds undefined until the first assignment.
Undefined == 0 - 1

\* summaryText.nodeValue = '' : no count is displayed.
NoCount == 0 - 1

\* ------------------------------------------------------------------------
\* Characters, terms, fragments, datasets
\* ------------------------------------------------------------------------

\* Characters the user types into the input field: a letter in each case,
\* the underscore and the two anchors.
TermChars == {"A", "b", "_", "^", "$"}

\* All sequences over S of length at most n.
SeqsUpTo(S, n) == UNION {[1..k -> S] : k \in 0..n}

\* Every term of at most MaxTermLen characters, and one that is no regular
\* expression: "(" opens a group that is never closed.
AllTerms == SeqsUpTo(TermChars, MaxTermLen) \cup {<<"(">>}

\* The terms typed in the event system Spec: nothing, a term that fills
\* several pages, and one that is no regular expression.
TypedTerms == {<<>>, <<"A">>, <<"(">>}

\* The fragments the URL takes in the event system Spec: none, one without
\* any word character, and one with two runs of other characters around
\* the name of a record.
Fragments == {<<>>, <<"!", "!">>, <<"!", "B", "!", "_", "A">>}

\* The name fields of kconfig.json, repeated in this order.
NamePool == << <<"A">>, <<"A", "B">>, <<"B">>, <<"a", "_">>, <<"B", "_", "A">> >>

\* A dataset of n records; a record is modelled by its name field, and is
\* identified by its index in the dataset.
Dataset(n) == [i \in 1..n |-> NamePool[((i - 1) % Len(NamePool)) + 1]]

\* The datasets response.json() may yield.
Datasets == {Dataset(n) : n \in {0, 3, MaxDbLen}}

\* ------------------------------------------------------------------------
\* new RegExp(term, 'i') and String.prototype.match
\* ------------------------------------------------------------------------

\* Canonicalize of the 'i' flag: compare upper-cased characters.
Canonicalize(c) ==
    CASE c = "a" -> "A"
      [] c = "b" -> "B"
      [] OTHER   -> c

\* new RegExp(term, 'i') throws a SyntaxError on an unterminated group.
ValidRegex(term) == \A k \in 1..Len(term) : term[k] # "("

\* Whether pat[k..] matches s from position i (i characters consumed).
\* "^" asserts the start of the string and "$" its end (no 'm' flag);
\* any other character matches itself, ignoring case.
RECURSIVE MatchAt(_, _, _, _)
MatchAt(pat, k, s, i) ==
    IF k > Len(pat) THEN TRUE
    ELSE CASE pat[k] = "^" -> i = 0 /\ MatchAt(pat, k + 1, s, i)
           [] pat[k] = "$" -> i = Len(s) /\ MatchAt(pat, k + 1, s, i)
           [] OTHER -> /\ i < Len(s)
                       /\ Canonicalize(s[i + 1]) = Canonicalize(pat[k])
                       /\ MatchAt(pat, k + 1, s, i + 1)

\* entry.name.match(pattern) is truthy: the pattern matches somewhere.
NameMatches(pat, name) == \E i \in 0..Len(name) : MatchAt(pat, 1, name, i)

\* ------------------------------------------------------------------------
\* doSearch: the filter pass and the navigation it derives
\* ------------------------------------------------------------------------

\* The window with its lower end included: count >= searchOffset.
InWindowFromOffset(count, off) ==
    off # Undefined /\ count >= off /\ count <= off + MAX_RESULTS

\* count > searchOffset && count <= (searchOffset + MAX_RESULTS);
\* every comparison with an undefined searchOffset (NaN) is false.
InWindow(count, off) ==
    off # Undefined /\ count > off /\ count <= off + MAX_RESULTS

\* count++ moved inside the window test.
CountAfterWindowOnly(count, matched, off) ==
    IF matched /\ InWindow(count + 1, off) THEN count + 1 ELSE count

\* if (entry.name.match(pattern)) { count++; ... }
CountAfter(count, matched, off) == IF matched THEN count + 1 ELSE count

\* The callback of db.filter on record i, which matched or not: acc holds
\* the count so far and the indices of the records kept so far.
FilterEntry(acc, i, matched, off) ==
    [count |-> CountAfter(acc.count, matched, off),
     searchResults |->
         IF matched /\ InWindow(CountAfter(acc.count, matched, off), off)
         THEN Append(acc.searchResults, i)
         ELSE acc.searchResults]

\* db.filter(entry => ...): one pass over the records lo..hi in dataset
\* order, starting from acc (the pass over lo..hi is the pass over its
\* first half followed by the pass over its second half).
RECURSIVE FilterFrom(_, _, _, _, _, _)
FilterFrom(d, pat, off, lo, hi, acc) ==
    IF lo > hi THEN acc
    ELSE IF lo = hi THEN FilterEntry(acc, lo, NameMatches(pat, d[lo]), off)
    ELSE CHOOSE last \in
             {FilterFrom(d, pat, off, ((lo + hi) \div 2) + 1, hi, first) :
                 first \in {FilterFrom(d, pat, off, lo, (lo + hi) \div 2, acc)}} :
             TRUE

\* let count = 0; const searchResults = db.filter(...): the final count and
\* the records kept.
Filter(d, pat, off) ==
    FilterFrom(d, pat, off, 1, Len(d), [count |-> 0, searchResults |-> <<>>])

\* navigationPrev.disabled = searchOffset - MAX_RESULTS < 0;
PrevDisabled(off) == off # Undefined /\ off - MAX_RESULTS < 0

\* Next disabled only once the offset itself has passed the count.
NextDisabledPastCount(off, count) == off # Undefined /\ off > count

\* navigationNext.disabled = searchOffset + MAX_RESULTS > count;
NextDisabled(off, count) == off # Undefined /\ off + MAX_RESULTS > count

\* Math.floor(n / MAX_RESULTS) + 1
PageNumber(n) == (n \div MAX_RESULTS) + 1


\* ------------------------------------------------------------------------
\* doSearchFromURL: the term derived from the URL fragment
\* ------------------------------------------------------------------------

\* A character of the class [A-Za-z0-9_].
IsWordChar(c) == c \in {"A", "B", "a", "b", "_"}

\* rawOption.replace(/[^A-Za-z0-9_]+/g, '') from position k on: every run
\* of characters outside the class is replaced by nothing.
RECURSIVE StripFrom(_, _)
StripFrom(raw, k) ==
    IF k > Len(raw) THEN <<>>
    ELSE IF IsWordChar(raw[k]) THEN <<raw[k]>> \o StripFrom(raw, k + 1)
    ELSE StripFrom(raw, k + 1)

\* The same replace without the g flag: only the first run is removed.
RECURSIVE StripFirstRun(_, _, _)
StripFirstRun(raw, k, seen) ==
    IF k > Len(raw) THEN <<>>
    ELSE IF IsWordChar(raw[k])
         THEN <<raw[k]>> \o StripFirstRun(raw, k + 1, IF seen = 1 THEN 2 ELSE seen)
    ELSE IF seen = 2 THEN <<raw[k]>> \o StripFirstRun(raw, k + 1, seen)
    ELSE StripFirstRun(raw, k + 1, 1)

\* The replace without its g flag.
SanitizeFirstRunOnly(rawOption) == StripFirstRun(rawOption, 1, 0)

\* const option = rawOption.replace(/[^A-Za-z0-9_]+/g, '');
Sanitize(rawOption) == StripFrom(rawOption, 1)

\* input.value = '^' + option + '$';
TermFromOption(option) == <<"^">> \o option \o <<"$">>

\* if (!rawOption) { return; } : doSearchFromURL goes on to search iff the
\* raw fragment (window.location.hash.substring(1)) is not empty.
RunsSearch(rawOption) == rawOption # <<>>

\* ------------------------------------------------------------------------
\* Session history
\* ------------------------------------------------------------------------

\* A history state object is absent (<<>>) or present (a one-element
\* sequence holding {value, searchOffset}).
NoState == <<>>

StateObject(val, off) == << [value |-> val, searchOffset |-> off] >>

Entry(fragment, state) == [hash |-> fragment, state |-> state]

\* history.pushState in the place of history.replaceState.
PushStateInstead(h, c, val, off) ==
    Append(SubSeq(h, 1, c), Entry(h[c].hash, StateObject(val, off)))

\* history.replaceState({value: input.value, searchOffset: searchOffset},
\*                      '', window.location);
ReplaceState(h, c, val, off) == [h EXCEPT ![c].state = StateObject(val, off)]

\* ------------------------------------------------------------------------
\* State of the search page
\* ------------------------------------------------------------------------

VARIABLES
    phase,                  \* "loading" | "ready" (listeners installed) | "failed"
    db,                     \* the dataset; <<>> while undefined
    input,                  \* input.value
    searchOffset,           \* searchOffset, Undefined until first assigned
    summaryText,            \* the count shown, NoCount for ''
    results,                \* content of the results container
    navigation,             \* navigation.style.visibility
    navigationPrev,         \* navigationPrev.disabled
    navigationNext,         \* navigationNext.disabled
    navigationPagesText,    \* <<>> for '', else <<currentPage, totalPages>>
    hist,                   \* session history entries of this document
    cur,                    \* index of the current entry
    pending,                \* events the browser has queued for delivery
    lastEvent,              \* the last event or handler that ran
    searched,               \* that step called doSearch
    threw,                  \* that step ended in an exception nobody caught
    lastPopState            \* event.state of the popstate delivered for the
                            \* traversal in progress, NoState otherwise

svars == <<phase, db, input, searchOffset, summaryText, results, navigation,
           navigationPrev, navigationNext, navigationPagesText, hist, cur,
           pending, lastEvent, searched, threw, lastPopState>>

\* State of one checkbox_select instance
VARIABLES
    binding,                \* what params.selector is and resolves to
    attrHook,               \* what the jQuery of the page makes of .attr('checked', v)
    inserted,               \* $_parent_div is in the page, after the <select>
    selectHidden,           \* $_native_select.hide() has run
    formSubmit,             \* the form still has its own input[type=submit]
    handlers,               \* the click and keyup handlers and the methods exist
    expanded,               \* $_parent_div.hasClass("expanded")
    show,                   \* $_dropdown_div.hasClass("show")
    checked,                \* checkedness of each checkbox item
    dirty,                  \* dirty checkedness flag of each checkbox item
    hide,                   \* $_li.hasClass("hide") of each item
    notFoundHide,           \* $_not_found.hasClass("hide")
    anchorText,             \* $_select_anchor.text()
    currently_selected,     \* the array currently_selected refers to
    submitData,             \* $_submit.data("selected")
    onApplyFired,           \* the last step invoked that.onApply
    onApplyArg,             \* e.selected of that call
    appliedSinceChange,     \* onApply has run since the selection was last touched
    callArgs,               \* arguments of the last step: of check(), or the
                            \* value of the search box at its keyup
    widgetEvent             \* the last widget event

wvars == <<binding, attrHook, inserted, selectHidden, formSubmit, handlers,
           expanded, show, checked, dirty, hide, notFoundHide, anchorText,
           currently_selected, submitData, onApplyFired, onApplyArg,
           appliedSinceChange, callArgs, widgetEvent>>

vars == <<svars, wvars>>

display == <<summaryText, results, navigation, navigationPrev,
             navigationNext, navigationPagesText>>

\* results.replaceChildren(...rendered entries): the records by index.
Rendered(items) == [kind |-> "entries", items |-> items, message |-> <<>>]

\* showProgress('Loading database...')
Progress == [kind |-> "progress", items |-> <<>>, message |-> <<"Loading database...">>]

\* The error panel without the error.
ErrorPanelWithoutError(error) ==
    [kind |-> "error", items |-> <<>>,
     message |-> <<"Kconfig database could not be loaded">>]

\* showError(`Kconfig database could not be loaded (${error})`)
ErrorPanel(error) ==
    [kind |-> "error", items |-> <<>>,
     message |-> <<"Kconfig database could not be loaded (", error, ")">>]

\* The errors fetch() and response.json() reject with.
LoadErrors == {"TypeError: Failed to fetch", "SyntaxError: Unexpected token"}

\* The fragment of the current URL: window.location.hash.substring(1).
CurrentHash == hist[cur].hash

\* doSearch() with input.value = val and searchOffset = off on dataset d.
\* replaceState comes first; an invalid term makes new RegExp throw, which
\* leaves everything after it undone.
doSearch(d, val, off) ==
    /\ hist' = ReplaceState(hist, cur, val, off)
    /\ IF val = <<>>
       THEN /\ summaryText' = NoCount
            /\ results' = Rendered(<<>>)
            /\ navigation' = "hidden"
            /\ UNCHANGED <<navigationPrev, navigationNext, navigationPagesText>>
            /\ threw' = FALSE
       ELSE IF ~ValidRegex(val)
       THEN /\ threw' = TRUE
            /\ UNCHANGED display
       ELSE \E f \in {Filter(d, val, off)} :
                /\ summaryText' = f.count
                /\ navigation' = "visible"
                /\ navigationPrev' = PrevDisabled(off)
                /\ navigationNext' = NextDisabled(off, f.count)
                /\ navigationPagesText' =
                       <<PageNumber(IF off = Undefined THEN 0 ELSE off),
                         PageNumber(f.count)>>
                /\ results' = Rendered(f.searchResults)
                /\ threw' = FALSE

\* doSearchFromURL() on dataset d.
doSearchFromURL(d) ==
    IF RunsSearch(CurrentHash)
    THEN /\ input' = TermFromOption(Sanitize(CurrentHash))
         /\ searchOffset' = 0
         /\ searched' = TRUE
         /\ doSearch(d, input', 0)
    ELSE /\ searched' = FALSE
         /\ threw' = FALSE
         /\ UNCHANGED <<input, searchOffset, hist, display>>


\* ------------------------------------------------------------------------
\* setupKconfigSearch and the handlers it installs
\*
\* Each handler is one step.  A keyup step takes the text the field holds
\* after the edit as its input.  kconfig.json is an array of records with a
\* name.  The browser delivers the popstate and the hashchange of one move
\* through the history (in this order) before the next user event, and to
\* nobody while no listener is installed.
\* ------------------------------------------------------------------------

\* State after setupKconfigSearch has run up to the fetch: the elements
\* exist, the navigation is hidden with both buttons disabled, the progress
\* message is shown, and the document was opened at fragment h0.
InitSearch(h0) ==
    /\ phase = "loading"
    /\ db = <<>>
    /\ input = <<>>
    /\ searchOffset = Undefined
    /\ summaryText = NoCount
    /\ results = Progress
    /\ navigation = "hidden"
    /\ navigationPrev = TRUE
    /\ navigationNext = TRUE
    /\ navigationPagesText = <<>>
    /\ hist = <<Entry(h0, NoState)>>
    /\ cur = 1
    /\ pending = <<>>
    /\ lastEvent = "setup"
    /\ searched = FALSE
    /\ threw = FALSE
    /\ lastPopState = NoState

\* The user types term t while the database is still loading: the input
\* element exists, the keyup listener does not, so only input.value changes.
TypeWhileLoading(t) ==
    /\ phase = "loading"
    /\ input # t
    /\ input' = t
    /\ lastEvent' = "typing"
    /\ searched' = FALSE
    /\ threw' = FALSE
    /\ UNCHANGED <<phase, db, searchOffset, display, hist, cur, pending,
                   lastPopState>>
    /\ UNCHANGED wvars

\* .then(json => { db = json; results.replaceChildren(); doSearchFromURL();
\* ...addEventListener... }) with .catch(error => showError(...)) behind it:
\* an exception thrown by the initial search is caught, shown as the error
\* panel, and the listeners are never installed.
LoadOk(d) ==
    /\ phase = "loading"
    /\ db' = d
    /\ lastEvent' = "load"
    /\ IF RunsSearch(CurrentHash)
          /\ ~ValidRegex(TermFromOption(Sanitize(CurrentHash)))
       THEN /\ phase' = "failed"
            /\ input' = TermFromOption(Sanitize(CurrentHash))
            /\ searchOffset' = 0
            /\ searched' = TRUE
            /\ threw' = FALSE
            /\ hist' = ReplaceState(hist, cur, input', 0)
            /\ results' = ErrorPanel("SyntaxError: Invalid regular expression")
            /\ UNCHANGED <<summaryText, navigation, navigationPrev,
                           navigationNext, navigationPagesText>>
       ELSE /\ phase' = "ready"
            /\ IF RunsSearch(CurrentHash)
               THEN doSearchFromURL(d)
               ELSE /\ results' = Rendered(<<>>)
                    /\ searched' = FALSE
                    /\ threw' = FALSE
                    /\ UNCHANGED <<input, searchOffset, hist, summaryText,
                                   navigation, navigationPrev, navigationNext,
                                   navigationPagesText>>
    /\ UNCHANGED <<cur, pending, lastPopState>>
    /\ UNCHANGED wvars

\* fetch or response.json() rejects: .catch(error => showError(...)).
LoadFail(error) ==
    /\ phase = "loading"
    /\ phase' = "failed"
    /\ results' = ErrorPanel(error)
    /\ lastEvent' = "loadfail"
    /\ searched' = FALSE
    /\ threw' = FALSE
    /\ UNCHANGED <<db, input, searchOffset, summaryText, navigation,
                   navigationPrev, navigationNext, navigationPagesText,
                   hist, cur, pending, lastPopState>>
    /\ UNCHANGED wvars

\* The user types term t after the load has failed: as while loading, the
\* input element exists and no keyup listener does.
TypeAfterFailure(t) ==
    /\ phase = "failed"
    /\ input # t
    /\ input' = t
    /\ lastEvent' = "typing"
    /\ searched' = FALSE
    /\ threw' = FALSE
    /\ UNCHANGED <<phase, db, searchOffset, display, hist, cur, pending,
                   lastPopState>>
    /\ UNCHANGED wvars

\* input.addEventListener('keyup', () => { searchOffset = 0; doSearch(); })
\* after the user has edited the field to hold t.
KeyUp(t) ==
    /\ phase = "ready"
    /\ pending = <<>>
    /\ input' = t
    /\ searchOffset' = 0
    /\ lastEvent' = "keyup"
    /\ searched' = TRUE
    /\ doSearch(db, t, 0)
    /\ lastPopState' = NoState
    /\ UNCHANGED <<phase, db, cur, pending>>
    /\ UNCHANGED wvars

\* A button can be clicked when it is visible and not disabled.
Clickable(disabled) == navigation = "visible" /\ ~disabled

\* The offsets the model follows.
WithinPages(off) ==
    off >= 0 - MaxPages * MAX_RESULTS /\ off <= MaxPages * MAX_RESULTS

\* navigationPrev.onclick = () => { searchOffset -= MAX_RESULTS; doSearch(); ... }
ClickPrev ==
    /\ pending = <<>>
    /\ Clickable(navigationPrev)
    /\ WithinPages(searchOffset - MAX_RESULTS)
    /\ searchOffset' = searchOffset - MAX_RESULTS
    /\ lastEvent' = "prev"
    /\ searched' = TRUE
    /\ doSearch(db, input, searchOffset')
    /\ lastPopState' = NoState
    /\ UNCHANGED <<phase, db, input, cur, pending>>
    /\ UNCHANGED wvars

\* navigationNext.onclick = () => { searchOffset += MAX_RESULTS; doSearch(); ... }
ClickNext ==
    /\ pending = <<>>
    /\ Clickable(navigationNext)
    /\ WithinPages(searchOffset + MAX_RESULTS)
    /\ searchOffset' = searchOffset + MAX_RESULTS
    /\ lastEvent' = "next"
    /\ searched' = TRUE
    /\ doSearch(db, input, searchOffset')
    /\ lastPopState' = NoState
    /\ UNCHANGED <<phase, db, input, cur, pending>>
    /\ UNCHANGED wvars

\* An event of the browser, carrying a history state object or none.
Event(type, state) == [type |-> type, state |-> state]

\* The same events with the listeners installed before the fetch resolves.
EventsForEarlyListeners(from, e) ==
    <<Event("popstate", e.state)>>
        \o (IF e.hash # from THEN <<Event("hashchange", NoState)>> ELSE <<>>)

\* The events a move from fragment `from` to the entry e brings: popstate
\* with the entry's state, then hashchange if the fragment differs.  They
\* reach a listener only once the listeners are installed.
EventsFor(from, e) ==
    IF phase = "ready"
    THEN <<Event("popstate", e.state)>>
         \o (IF e.hash # from THEN <<Event("hashchange", NoState)>> ELSE <<>>)
    ELSE <<>>

\* The user follows a link to fragment h (a permalink of a rendered entry,
\* or an edit of the address bar): a new entry without state object follows
\* the current one, the entries after it are dropped.
Navigate(h) ==
    /\ pending = <<>>
    /\ h # CurrentHash
    /\ cur < MaxHist
    /\ hist' = Append(SubSeq(hist, 1, cur), Entry(h, NoState))
    /\ cur' = cur + 1
    /\ pending' = EventsFor(CurrentHash, Entry(h, NoState))
    /\ lastEvent' = "navigate"
    /\ searched' = FALSE
    /\ threw' = FALSE
    /\ lastPopState' = NoState
    /\ UNCHANGED <<phase, db, input, searchOffset, display>>
    /\ UNCHANGED wvars

\* The user goes back one entry.
Back ==
    /\ pending = <<>>
    /\ cur > 1
    /\ cur' = cur - 1
    /\ pending' = EventsFor(CurrentHash, hist[cur - 1])
    /\ lastEvent' = "back"
    /\ searched' = FALSE
    /\ threw' = FALSE
    /\ lastPopState' = NoState
    /\ UNCHANGED <<phase, db, input, searchOffset, display, hist>>
    /\ UNCHANGED wvars

\* The user goes forward one entry.
Forward ==
    /\ pending = <<>>
    /\ cur < Len(hist)
    /\ cur' = cur + 1
    /\ pending' = EventsFor(CurrentHash, hist[cur + 1])
    /\ lastEvent' = "forward"
    /\ searched' = FALSE
    /\ threw' = FALSE
    /\ lastPopState' = NoState
    /\ UNCHANGED <<phase, db, input, searchOffset, display, hist>>
    /\ UNCHANGED wvars

\* window.addEventListener('popstate', (event) => { if (!event.state)
\* return; input.value = event.state.value; searchOffset =
\* event.state.searchOffset; doSearch(); })
OnPopState ==
    /\ pending # <<>>
    /\ Head(pending).type = "popstate"
    /\ pending' = Tail(pending)
    /\ lastEvent' = "popstate"
    /\ lastPopState' = Head(pending).state
    /\ IF Head(pending).state = NoState
       THEN /\ searched' = FALSE
            /\ threw' = FALSE
            /\ UNCHANGED <<input, searchOffset, hist, display>>
       ELSE /\ input' = Head(pending).state[1].value
            /\ searchOffset' = Head(pending).state[1].searchOffset
            /\ searched' = TRUE
            /\ doSearch(db, input', searchOffset')
    /\ UNCHANGED <<phase, db, cur>>
    /\ UNCHANGED wvars

\* window.addEventListener('hashchange', doSearchFromURL)
OnHashChange ==
    /\ pending # <<>>
    /\ Head(pending).type = "hashchange"
    /\ pending' = Tail(pending)
    /\ lastEvent' = "hashchange"
    /\ doSearchFromURL(db)
    /\ UNCHANGED <<phase, db, cur, lastPopState>>
    /\ UNCHANGED wvars


\* ------------------------------------------------------------------------
\* checkbox_select: the filter-chip widget
\*
\* Each handler and each method call is one step.  The dropdown and what it
\* holds (search box, checkboxes, submit button) can be used while the
\* dropdown has the class "show"; an item can be clicked while it does not
\* have the class "hide".  The options of the <select> stay as they are.
\* ------------------------------------------------------------------------

\* The <option>s of the bound <select>: display text and value.  One value
\* is the empty string and one holds a comma.
Options ==
    << [text |-> <<"A", "r", "m">>, value |-> <<"a", "r", "m">>],
       [text |-> <<"A", "n", "y">>, value |-> <<>>],
       [text |-> <<"x", "8", "6">>, value |-> <<"x", ",", "8">>] >>

\* Indices of the checkbox items update() builds, one per option.
Items == 1..Len(Options)

\* What the constructor is given: params.selector (undefined, a string, or
\* something else such as an element), and what $(params.selector) holds:
\* a form, a select in it, an option in it, a name attribute on the select.
\* Nothing is found for an undefined selector, and a name needs a select.
Bindings ==
    {b \in [selector : {"undefined", "string", "object"},
            form : BOOLEAN, select : BOOLEAN, option : BOOLEAN, name : BOOLEAN] :
        /\ b.selector = "undefined" => ~b.form /\ ~b.select /\ ~b.option
        /\ b.name => b.select}

\* A form with a named select that has options, given by a selector string.
ValidBinding ==
    [selector |-> "string", form |-> TRUE, select |-> TRUE, option |-> TRUE,
     name |-> TRUE]

\* The construction-time checks without the one for the name attribute.
ConstructionErrorNameUnchecked(b) ==
    \/ b.selector = "undefined"
    \/ b.selector # "string"
    \/ ~b.form
    \/ ~b.select
    \/ ~b.option

\* var error = false; if (...) { console.error(...); error = true; } six
\* times over: error after the last check.
ConstructionError(b) ==
    \/ b.selector = "undefined"
    \/ b.selector # "string"
    \/ ~b.form
    \/ ~b.select
    \/ ~b.option
    \/ ~b.name

\* .attr('checked', v) of the jQuery the page loads: releases before 1.9
\* set the checked property with the attribute, later ones the attribute
\* only.
AttrHooks == {"property", "attribute"}

\* The name attribute of the select.
NameAttr == <<"c", "p", "u">>

\* String.prototype.toUpperCase / toLocaleUpperCase on one character.
ToUpper(c) ==
    CASE c = "a" -> "A"
      [] c = "c" -> "C"
      [] c = "m" -> "M"
      [] c = "r" -> "R"
      [] c = "x" -> "X"
      [] OTHER   -> c

\* String.prototype.toLowerCase on one character.
ToLower(c) ==
    CASE c = "A" -> "a"
      [] c = "Z" -> "z"
      [] OTHER   -> c

toLocaleUpperCase(str) == [k \in 1..Len(str) |-> ToUpper(str[k])]

toLowerCase(str) == [k \in 1..Len(str) |-> ToLower(str[k])]

\* select_name = name.charAt(0).toUpperCase() + name.substr(1)
select_name ==
    IF NameAttr = <<>> THEN <<>> ELSE <<ToUpper(NameAttr[1])>> \o Tail(NameAttr)

\* conjunctor = params.conjunctor ? params.conjunctor : " or"
conjunctor == <<" ", "o", "r">>

\* A JavaScript array: its identity and its elements.
Array(id, vals) == [kind |-> "array", id |-> id, vals |-> vals]

\* A JavaScript string value.
String(str) == [kind |-> "string", id |-> 0, vals |-> str]

\* The identity of a newly created array: one that the array still held by
\* $_submit.data("selected") does not have (every other array is garbage).
FreshId == IF submitData.kind = "array" /\ submitData.id = 1 THEN 2 ELSE 1

\* The checkboxes "input:checked:visible" would select.
SelectedVisibleInputs(chk, hid) == [i \in Items |-> chk[i] /\ ~hid[i]]

\* $_ul.find("input:checked"): the checked checkboxes, shown or hidden.
SelectedInputs(chk, hid) == chk

\* $_ul.find("input:checked").each(... selected.push($(this).val()) ...)
\* from item i on: the values of the checked items in list order.
RECURSIVE CheckedValues(_, _)
CheckedValues(chk, i) ==
    IF i > Len(Options) THEN <<>>
    ELSE IF chk[i] THEN <<Options[i].value>> \o CheckedValues(chk, i + 1)
    ELSE CheckedValues(chk, i + 1)

\* selected_display_string += $(this).val().toLocaleUpperCase() + ", "
\* over the selected values.
RECURSIVE DisplayList(_)
DisplayList(vals) ==
    IF vals = <<>> THEN <<>>
    ELSE toLocaleUpperCase(vals[1]) \o <<",", " ">> \o DisplayList(Tail(vals))

\* str.lastIndexOf(","), counted from 1; 0 when there is none.
LastComma(str) ==
    IF \E k \in 1..Len(str) : str[k] = ","
    THEN CHOOSE k \in 1..Len(str) :
             str[k] = "," /\ \A j \in (k + 1)..Len(str) : str[j] # ","
    ELSE 0

\* The display string after the loop: the last two characters are cut off
\* and the last comma left in the string is replaced by the conjunctor.
selected_display_string(vals) ==
    LET cut == SubSeq(DisplayList(vals), 1, Len(DisplayList(vals)) - 2)
        last_comma == LastComma(cut)
    IN  IF last_comma = 0 THEN cut
        ELSE SubSeq(cut, 1, last_comma - 1) \o conjunctor
                 \o SubSeq(cut, last_comma + 1, Len(cut))

\* $_select_anchor.text(...) for the selected values.
AnchorText(vals) ==
    IF Len(vals) = 0 THEN select_name
    ELSE IF Len(vals) = 1 THEN selected_display_string(vals) \o <<" ">> \o select_name
    ELSE selected_display_string(vals) \o <<" ">> \o select_name \o <<"s">>

\* Array.prototype.toString: the elements joined by ",".
RECURSIVE Join(_)
Join(vals) ==
    IF vals = <<>> THEN <<>>
    ELSE IF Len(vals) = 1 THEN vals[1]
    ELSE vals[1] \o <<",">> \o Join(Tail(vals))

\* currently_selected != $_submit.data("selected"): two arrays differ iff
\* they are not the same object; an array and a string are compared after
\* converting the array to a string.
LooseNotEqual(arr, data) ==
    IF data.kind = "array" THEN arr.id # data.id
    ELSE Join(arr.vals) # data.vals

\* The selection stored as a copy of the array.
DataSelectedCopy(arr) == Array(3 - arr.id, arr.vals)

\* $_submit.data("selected", currently_selected) stores the array itself.
DataSelected(arr) == arr

\* addClass in the place of toggleClass.
addClass(has) == TRUE

\* toggleClass: the element has the class afterwards iff it had not.
toggleClass(has) == ~has

\* What the search box of the widget is made to hold.
Queries ==
    { <<>>, <<" ">>, <<"a">>, <<"A", " ">>, <<"r">>, <<"r", "m">>,
      <<"m", "a">>, <<"Z", "z">> }

\* String.prototype.trim from position k on: leading blanks removed.
RECURSIVE TrimStart(_)
TrimStart(str) ==
    IF str # <<>> /\ Head(str) = " " THEN TrimStart(Tail(str)) ELSE str

\* Trailing blanks removed.
RECURSIVE TrimEnd(_)
TrimEnd(str) ==
    IF str # <<>> /\ str[Len(str)] = " "
    THEN TrimEnd(SubSeq(str, 1, Len(str) - 1))
    ELSE str

\* var search = $(this).val().toLowerCase().trim();
SearchOf(val) == TrimEnd(TrimStart(toLowerCase(val)))

\* text.indexOf(search) > -1
Contains(text, search) ==
    \E k \in 0..(Len(text) - Len(search)) :
        SubSeq(text, k + 1, k + Len(search)) = search

\* The test of the second branch used for every length of the search.
LabelContains(label, search) == Contains(toLowerCase(label), search)

\* Whether the keyup handler leaves the item of this label shown: for a
\* search of one character, label.toLowerCase().charAt(0) == search.charAt(0);
\* otherwise label.toLowerCase().indexOf(search) > -1.
LabelMatches(label, search) ==
    IF Len(search) = 1
    THEN label # <<>> /\ ToLower(label[1]) = search[1]
    ELSE Contains(toLowerCase(label), search)

\* $_ul.text(): the texts of all labels, one after the other.
RECURSIVE UlText(_)
UlText(i) ==
    IF i > Len(Options) THEN <<>> ELSE Options[i].text \o UlText(i + 1)

\* The class "hide" of $_not_found after the keyup handler: the first
\* branch sets it anew at every label, so the last label decides; the
\* second branch looks for the search in the text of the whole list.
NotFoundHideAfter(search) ==
    IF Len(search) = 1
    THEN IF Len(Options) = 0 THEN notFoundHide
         ELSE LabelMatches(Options[Len(Options)].text, search)
    ELSE Contains(toLowerCase(UlText(1)), search)

\* The first checkbox whose name attribute is `name` (0 if there is none):
\* createItem names a checkbox after the text of its option.
FirstNamed(name) ==
    IF \E i \in Items : Options[i].text = name
    THEN CHOOSE i \in Items :
             Options[i].text = name /\ \A j \in 1..(i - 1) : Options[j].text # name
    ELSE 0

\* The names check() is called with: those of the options and another one.
Names == {Options[i].text : i \in Items} \cup {<<"n", "o">>}

\* $(this).attr('checked', checked ? checked : false) on checkbox i.  The
\* checked attribute decides the checkedness only while the dirty
\* checkedness flag is unset (the user has not clicked the box, the
\* property was never assigned); assigning the property sets the flag.
CheckedAfterAttr(i, v) ==
    IF attrHook = "property" \/ ~dirty[i]
    THEN [checked EXCEPT ![i] = v]
    ELSE checked

DirtyAfterAttr(i, v) ==
    IF attrHook = "property" THEN [dirty EXCEPT ![i] = TRUE] ELSE dirty

\* The constructor on binding b with a jQuery whose attr is hook.  With an
\* error it returns before anything is built; otherwise the widget is in
\* the page, closed, nothing checked, .data("selected", ""), and update()
\* has called updateCurrentlySelected.
Constructed(b, hook) ==
    /\ binding = b
    /\ attrHook = hook
    /\ inserted = ~ConstructionError(b)
    /\ selectHidden = ~ConstructionError(b)
    /\ formSubmit = ConstructionError(b)
    /\ handlers = ~ConstructionError(b)
    /\ expanded = FALSE
    /\ show = FALSE
    /\ checked = [i \in Items |-> FALSE]
    /\ dirty = [i \in Items |-> FALSE]
    /\ hide = [i \in Items |-> FALSE]
    /\ notFoundHide = TRUE
    /\ anchorText = IF ConstructionError(b) THEN <<>> ELSE select_name
    /\ currently_selected = Array(1, <<>>)
    /\ submitData = String(<<>>)
    /\ onApplyFired = FALSE
    /\ onApplyArg = <<>>
    /\ appliedSinceChange = FALSE
    /\ callArgs = <<>>
    /\ widgetEvent = "construct"

\* State after the constructor has run on a valid binding.
InitWidget == Constructed(ValidBinding, "attribute")

\* What construction fixes.
built == <<binding, attrHook, inserted, selectHidden, formSubmit, handlers>>

\* updateCurrentlySelected() with the checkboxes as in chk and the items
\* hidden as in hid:
\* var selected = []; ... currently_selected = selected; ...anchor.text(...)
updateCurrentlySelected(chk, hid) ==
    /\ currently_selected' =
           Array(FreshId, CheckedValues(SelectedInputs(chk, hid), 1))
    /\ anchorText' = AnchorText(CheckedValues(SelectedInputs(chk, hid), 1))
    /\ appliedSinceChange' = FALSE

\* apply(): toggle the dropdown; on closing, fire onApply and remember the
\* selection if currently_selected != $_submit.data("selected").
apply ==
    /\ show' = toggleClass(show)
    /\ expanded' = toggleClass(expanded)
    /\ IF ~expanded' /\ LooseNotEqual(currently_selected, submitData)
       THEN /\ submitData' = DataSelected(currently_selected)
            /\ onApplyFired' = TRUE
            /\ onApplyArg' = submitData'.vals
            /\ appliedSinceChange' = TRUE
       ELSE /\ onApplyFired' = FALSE
            /\ onApplyArg' = <<>>
            /\ UNCHANGED <<submitData, appliedSinceChange>>
    /\ UNCHANGED <<checked, dirty, hide, notFoundHide, anchorText,
                   currently_selected>>

\* $_select_anchor.click(function(){ apply(); })
ClickAnchor ==
    /\ handlers /\ inserted
    /\ widgetEvent' = "anchor"
    /\ callArgs' = <<>>
    /\ apply
    /\ UNCHANGED built
    /\ UNCHANGED svars

\* $_submit.click(function(e){ e.preventDefault(); apply(); }); the submit
\* button is inside the dropdown, which is shown while the widget is open.
ClickSubmit ==
    /\ handlers /\ show
    /\ widgetEvent' = "submit"
    /\ callArgs' = <<>>
    /\ apply
    /\ UNCHANGED built
    /\ UNCHANGED svars

\* The user clicks checkbox i of the open dropdown: the browser toggles it,
\* then .click(function(){ updateCurrentlySelected(); }) runs.
ClickCheckbox(i) ==
    /\ handlers /\ show /\ ~hide[i]
    /\ checked' = [checked EXCEPT ![i] = ~checked[i]]
    /\ dirty' = [dirty EXCEPT ![i] = TRUE]
    /\ updateCurrentlySelected(checked', hide)
    /\ widgetEvent' = "checkbox"
    /\ callArgs' = <<>>
    /\ onApplyFired' = FALSE
    /\ onApplyArg' = <<>>
    /\ UNCHANGED <<expanded, show, hide, notFoundHide, submitData>>
    /\ UNCHANGED built
    /\ UNCHANGED svars

\* that.check(checkbox_name, checked): the first checkbox of that name gets
\* .attr('checked', checked ? checked : false), then
\* updateCurrentlySelected() runs.
Check(name, v) ==
    /\ handlers
    /\ IF FirstNamed(name) = 0
       THEN UNCHANGED <<checked, dirty>>
       ELSE /\ checked' = CheckedAfterAttr(FirstNamed(name), v)
            /\ dirty' = DirtyAfterAttr(FirstNamed(name), v)
    /\ updateCurrentlySelected(checked', hide)
    /\ widgetEvent' = "check"
    /\ callArgs' = <<name, v>>
    /\ onApplyFired' = FALSE
    /\ onApplyArg' = <<>>
    /\ UNCHANGED <<expanded, show, hide, notFoundHide, submitData>>
    /\ UNCHANGED built
    /\ UNCHANGED svars

\* that.update(): $_ul.empty(), one new item per option (unchecked, never
\* clicked, not hidden), then updateCurrentlySelected().
Update ==
    /\ handlers
    /\ checked' = [i \in Items |-> FALSE]
    /\ dirty' = [i \in Items |-> FALSE]
    /\ hide' = [i \in Items |-> FALSE]
    /\ updateCurrentlySelected(checked', hide')
    /\ widgetEvent' = "update"
    /\ callArgs' = <<>>
    /\ onApplyFired' = FALSE
    /\ onApplyArg' = <<>>
    /\ UNCHANGED <<expanded, show, notFoundHide, submitData>>
    /\ UNCHANGED built
    /\ UNCHANGED svars

\* $_search.keyup(function(){ ... }) after the user has edited the search
\* box to hold val: every item gets or loses the class "hide", and so does
\* the not-found message.
SearchKeyUp(val) ==
    /\ handlers /\ show
    /\ hide' = [i \in Items |-> ~LabelMatches(Options[i].text, SearchOf(val))]
    /\ notFoundHide' = NotFoundHideAfter(SearchOf(val))
    /\ widgetEvent' = "search"
    /\ callArgs' = <<val>>
    /\ onApplyFired' = FALSE
    /\ onApplyArg' = <<>>
    /\ UNCHANGED <<expanded, show, checked, dirty, anchorText,
                   currently_selected, submitData, appliedSinceChange>>
    /\ UNCHANGED built
    /\ UNCHANGED svars

\* ------------------------------------------------------------------------
\* Specifications
\* ------------------------------------------------------------------------

\* The search page as an event system: loading, typing, paging, following
\* links and moving through the session history.
Init == (\E h0 \in Fragments : InitSearch(h0)) /\ InitWidget

Next ==
    \/ \E t \in TypedTerms : TypeWhileLoading(t)
    \/ LoadOk(Dataset(MaxDbLen))
    \/ \E e \in LoadErrors : LoadFail(e)
    \/ \E t \in TypedTerms : TypeAfterFailure(t)
    \/ \E t \in TypedTerms : KeyUp(t)
    \/ ClickPrev
    \/ ClickNext
    \/ \E h \in Fragments : Navigate(h)
    \/ Back
    \/ Forward
    \/ OnPopState
    \/ OnHashChange

Spec == Init /\ [][Next]_vars

\* The search on one history entry, for every dataset and every term up to
\* the bounds: the document is opened without a fragment, and the user
\* types any term and pages through the results.
InitEval == InitSearch(<<>>) /\ InitWidget

NextEval ==
    \/ \E d \in Datasets : LoadOk(d)
    \/ \E t \in AllTerms : KeyUp(t)
    \/ ClickPrev
    \/ ClickNext

SpecEval == InitEval /\ [][NextEval]_vars

\* One widget instance under clicks on its anchor, its checkboxes and its
\* submit button, typing in its search box, and calls of check and update.
NextWidget ==
    \/ ClickAnchor
    \/ ClickSubmit
    \/ \E i \in Items : ClickCheckbox(i)
    \/ \E name \in Names, v \in BOOLEAN : Check(name, v)
    \/ Update
    \/ \E val \in Queries : SearchKeyUp(val)

\* The constructor is given any binding, on a page with either jQuery.
InitAnyWidget ==
    /\ InitSearch(<<>>)
    /\ \E b \in Bindings, hook \in AttrHooks : Constructed(b, hook)

SpecWidget == InitAnyWidget /\ [][NextWidget]_vars


\* ------------------------------------------------------------------------
\* What the search is to yield, stated without the filter pass
\* ------------------------------------------------------------------------

\* The records of d whose name the term matches, by index.
Matching(d, term) == {i \in 1..Len(d) : NameMatches(term, d[i])}

\* The zero-based rank of record i among the matches.
RankOf(d, term, i) == Cardinality({j \in Matching(d, term) : j < i})

\* The matches whose rank lies in [off, off + MAX_RESULTS).
PageOf(d, term, off) ==
    {i \in Matching(d, term) :
        RankOf(d, term, i) >= off /\ RankOf(d, term, i) < off + MAX_RESULTS}

\* The elements of a sequence, and whether they strictly ascend.
RangeOf(seq) == {seq[k] : k \in 1..Len(seq)}

Ascending(seq) == \A k \in 1..(Len(seq) - 1) : seq[k] < seq[k + 1]

\* The fragment without the characters outside [A-Za-z0-9_].
WordCharsOnly(fragment) ==
    LET Keep(c) == c \in {"A", "B", "a", "b", "_"} IN SelectSeq(fragment, Keep)

\* The last step was a handler that follows a successful load.
AfterHandler ==
    phase = "ready" /\ lastEvent \in {"keyup", "prev", "next", "hashchange", "popstate"}

\* The display is what the search yields for the current term and offset:
\* nothing for no term; for a term that is no regular expression, no
\* results or an error; else the page of matches, their count, and
\* the buttons derived from offset and count.
DisplayIsCurrent ==
    IF input = <<>>
    THEN results = Rendered(<<>>) /\ summaryText = NoCount /\ navigation = "hidden"
    ELSE IF ~ValidRegex(input)
    THEN results = Rendered(<<>>) \/ results.kind = "error"
    ELSE /\ results.kind = "entries"
         /\ Ascending(results.items)
         /\ RangeOf(results.items) = PageOf(db, input, searchOffset)
         /\ summaryText = Cardinality(Matching(db, input))
         /\ navigation = "visible"
         /\ navigationPrev = (searchOffset - MAX_RESULTS < 0)
         /\ navigationNext = (searchOffset + MAX_RESULTS > summaryText)

\* ------------------------------------------------------------------------
\* Claims
\* ------------------------------------------------------------------------

\* C1: after every keyup, pagination click, hashchange and popstate that
\* follows a successful load, the displayed results, count and navigation
\* are those of the current input term and the current searchOffset.
C1_DisplayNeverStale == AfterHandler => DisplayIsCurrent

\* C2: after a search with a non-empty valid term, the count shown is the
\* number of all records whose name matches the term, at every offset.
C2_CountIsAllMatches ==
    (searched /\ ~threw /\ input # <<>> /\ ValidRegex(input))
        => summaryText = Cardinality(Matching(db, input))

\* C2 witness: names A, AB, B and term ^A give count 2 and the first two
\* records.
C2_Witness ==
    /\ searched
    /\ db = Dataset(3)
    /\ input = <<"^", "A">>
    /\ summaryText = 2
    /\ results = Rendered(<<1, 2>>)

\* C3: the records a search renders are the matches of rank
\* [searchOffset, searchOffset + MAX_RESULTS) in dataset order (none for an
\* empty term), so never more than MAX_RESULTS.
C3_PageIsWindow ==
    (searched /\ ~threw /\ phase = "ready")
        => /\ results.kind = "entries"
           /\ Ascending(results.items)
           /\ RangeOf(results.items) =
                 (IF input = <<>> THEN {} ELSE PageOf(db, input, searchOffset))
           /\ Len(results.items) <= MAX_RESULTS

\* C3 witness: the second page of more than twenty matches holds ten of
\* them, beginning after the first page's last.
C3_Witness ==
    /\ searched
    /\ searchOffset = MAX_RESULTS
    /\ summaryText > 2 * MAX_RESULTS
    /\ Len(results.items) = MAX_RESULTS
    /\ RankOf(db, input, results.items[1]) = MAX_RESULTS

\* C4: a search with a term that is no regular expression ends without an
\* unhandled exception, with no results or with an error displayed.
C4_InvalidTermHandled ==
    (searched /\ input # <<>> /\ ~ValidRegex(input))
        => ~threw /\ (results = Rendered(<<>>) \/ results.kind = "error")

\* C5: after every search with a non-empty term both buttons are visible,
\* Previous is disabled iff searchOffset - MAX_RESULTS < 0 and Next iff
\* searchOffset + MAX_RESULTS exceeds the match count (no matches for a
\* term that is no regular expression).
C5_ButtonsFollowOffset ==
    (searched /\ input # <<>>)
        => /\ navigation = "visible"
           /\ navigationPrev = (searchOffset - MAX_RESULTS < 0)
           /\ navigationNext =
                 (searchOffset + MAX_RESULTS >
                    (IF ValidRegex(input) THEN Cardinality(Matching(db, input)) ELSE 0))

\* C6: after the initial load and after every hashchange at a non-empty
\* fragment, the term is ^ + the fragment's word characters + $, the offset
\* is 0, and a search has run with them.
C6_TermFromFragment ==
    (lastEvent \in {"load", "hashchange"} /\ CurrentHash # <<>>)
        => /\ input = <<"^">> \o WordCharsOnly(CurrentHash) \o <<"$">>
           /\ searchOffset = 0
           /\ searched
           /\ hist[cur].state = StateObject(input, 0)
           /\ summaryText = Cardinality(Matching(db, input))

\* C6 witness: a hashchange at fragment !B!_A has searched ^B_A$ and found
\* the records named B_A.
C6_Witness ==
    /\ lastEvent = "hashchange"
    /\ CurrentHash = <<"!", "B", "!", "_", "A">>
    /\ input = <<"^", "B", "_", "A", "$">>
    /\ summaryText = MaxDbLen \div Len(NamePool)

\* C7: at a fragment that is empty once stripped, the initial load and a
\* hashchange set no term and run no search: input, summary and navigation
\* stay as they are, and a hashchange leaves the results alone.
C7_EmptyStrippedIsNoSearch ==
    [][(lastEvent' \in {"load", "hashchange"}
          /\ WordCharsOnly(hist'[cur'].hash) = <<>>)
        => /\ ~searched'
           /\ UNCHANGED <<input, searchOffset, summaryText, navigation>>
           /\ (lastEvent' = "hashchange" => UNCHANGED results)]_vars

\* C8: a step that searches replaces the state of the current history
\* entry by {value, searchOffset} and changes nothing else of the history;
\* a popstate with a state object takes the term and the offset from it and
\* searches; a popstate without one changes nothing.
C8_HistoryReplaced ==
    [][/\ searched' =>
             /\ cur' = cur
             /\ hist' = [hist EXCEPT ![cur].state = StateObject(input', searchOffset')]
       /\ (pending # <<>> /\ pending' = Tail(pending) /\ Head(pending).type = "popstate") =>
             IF Head(pending).state # NoState
             THEN /\ input' = Head(pending).state[1].value
                  /\ searchOffset' = Head(pending).state[1].searchOffset
                  /\ searched'
                  /\ Len(hist') = Len(hist)
             ELSE UNCHANGED <<input, searchOffset, display, hist, cur>>]_vars

\* C8 witness: going back to an entry left on its second page, the popstate
\* has restored term and offset and searched, with both entries in place.
C8_Witness ==
    /\ lastEvent = "popstate"
    /\ lastPopState = StateObject(<<"A">>, MAX_RESULTS)
    /\ input = <<"A">>
    /\ searchOffset = MAX_RESULTS
    /\ searched
    /\ Len(hist) = 2
    /\ hist[cur].state = lastPopState

\* C9: once the popstate and the hashchange of one back/forward move have
\* been handled, term and offset are those of the state object the popstate
\* carried.
C9_TraversalRestores ==
    (pending = <<>> /\ lastPopState # NoState)
        => /\ input = lastPopState[1].value
           /\ searchOffset = lastPopState[1].searchOffset

\* The values of the checked checkboxes, as a set.
CheckedSet == {Options[i].value : i \in {j \in Items : checked[j]}}

\* The selection last applied, as a set: empty before the first apply.
AppliedSet == IF submitData.kind = "array" THEN RangeOf(submitData.vals) ELSE {}

\* C10: onApply is invoked only on a step from Open to Closed at which the
\* checked set differs from the set last applied.
C10_ApplyOnlyOnChange ==
    [][onApplyFired' => (expanded /\ ~expanded' /\ CheckedSet # AppliedSet)]_vars

\* C11: a step that invokes onApply from a click on the anchor or the
\* submit button is never one where onApply has already run since the last
\* checkbox click, check() or update().
C11_ConfirmOnce ==
    [][(onApplyFired' /\ widgetEvent' \in {"anchor", "submit"})
          => ~appliedSinceChange]_vars

\* C11 witness: the widget was closed again by its submit button after an
\* apply, nothing was touched in between, and onApply did not run.
C11_Witness ==
    /\ widgetEvent = "submit"
    /\ ~expanded
    /\ appliedSinceChange
    /\ ~onApplyFired
    /\ submitData.kind = "array"

\* C12: the widget is Closed after construction and either Closed or Open
\* (dropdown shown iff expanded); an anchor click in Closed opens it without
\* onApply, an anchor or submit click in Open closes it, no other step
\* moves it, and onApply runs only on a step from Open to Closed.
C12_TwoStates ==
    [][/\ (widgetEvent = "construct" => ~expanded /\ ~show)
       /\ show' = expanded'
       /\ (widgetEvent' = "anchor" /\ ~expanded) => (expanded' /\ ~onApplyFired')
       /\ (widgetEvent' \in {"anchor", "submit"} /\ expanded) => ~expanded'
       /\ widgetEvent' \notin {"anchor", "submit"} => expanded' = expanded
       /\ onApplyFired' => (expanded /\ ~expanded')]_vars

\* C12 witness: an anchor click has closed the open widget and onApply ran.
C12_Witness ==
    /\ widgetEvent = "anchor"
    /\ ~expanded
    /\ ~show
    /\ onApplyFired

\* C13: check(name, checked) makes the checkbox of that name checked or
\* not as asked, leaves the others, recomputes selection and anchor text
\* from the checked set, does not invoke onApply and leaves Open/Closed
\* and the applied selection alone.
C13_CheckSetsOne ==
    [][widgetEvent' = "check" =>
          /\ checked' = IF FirstNamed(callArgs'[1]) = 0 THEN checked
                        ELSE [checked EXCEPT ![FirstNamed(callArgs'[1])] = callArgs'[2]]
          /\ currently_selected'.vals = CheckedValues(checked', 1)
          /\ anchorText' = AnchorText(CheckedValues(checked', 1))
          /\ ~onApplyFired'
          /\ UNCHANGED <<expanded, show, submitData>>]_vars

\* The values joined by ", ".
RECURSIVE JoinCommaBlank(_)
JoinCommaBlank(vals) ==
    IF vals = <<>> THEN <<>>
    ELSE IF Len(vals) = 1 THEN vals[1]
    ELSE vals[1] \o <<",", " ">> \o JoinCommaBlank(Tail(vals))

\* The summary of the selected values: the label; "<value> <label>";
\* "<v1>, <v2> or <v3> <label>s".
SummaryOf(vals) ==
    IF Len(vals) = 0 THEN <<"C", "p", "u">>
    ELSE IF Len(vals) = 1 THEN vals[1] \o <<" ">> \o <<"C", "p", "u">>
    ELSE JoinCommaBlank(SubSeq(vals, 1, Len(vals) - 1)) \o <<" ", "o", "r", " ">>
             \o vals[Len(vals)] \o <<" ">> \o <<"C", "p", "u", "s">>

\* C14: after a checkbox click, check() and update() the anchor text is
\* the summary of the values of the checked checkboxes.
C14_AnchorTextIsSummary ==
    widgetEvent \in {"checkbox", "check", "update"}
        => anchorText = SummaryOf(CheckedValues(checked, 1))

\* Whether `label` starts with / contains `text`, ignoring case.
StartsWith(label, text) ==
    Len(label) >= Len(text) /\ toLowerCase(SubSeq(label, 1, Len(text))) = toLowerCase(text)

HasSubstring(label, text) ==
    \E k \in 1..(Len(label) - Len(text) + 1) :
        StartsWith(SubSeq(label, k, Len(label)), text)

\* The search box value without its blanks at both ends.
Trimmed(val) ==
    LET inner == {k \in 1..Len(val) : val[k] # " "}
    IN  IF inner = {} THEN <<>>
        ELSE SubSeq(val, CHOOSE k \in inner : \A j \in inner : k <= j,
                         CHOOSE k \in inner : \A j \in inner : k >= j)

\* C15: after a keyup in the search box an item is shown iff its label
\* contains the trimmed query ignoring case, or starts with it when the
\* query is one character; an empty query shows every item.
C15_SearchShowsMatches ==
    widgetEvent = "search" =>
        \A i \in Items :
            ~hide[i] =
                IF Trimmed(callArgs[1]) = <<>> THEN TRUE
                ELSE IF Len(Trimmed(callArgs[1])) = 1
                THEN StartsWith(Options[i].text, Trimmed(callArgs[1]))
                ELSE HasSubstring(Options[i].text, Trimmed(callArgs[1]))

\* C15 witness: the query "r" hides Arm, which holds an r but does not
\* start with it, and "A " shows the two labels that start with an a.
C15_Witness ==
    /\ widgetEvent = "search"
    /\ \/ callArgs = << <<"r">> >> /\ hide = [i \in Items |-> TRUE]
       \/ callArgs = << <<"A", " ">> >> /\ ~hide[1] /\ ~hide[2] /\ hide[3]

\* C16: a keyup in the search box leaves the checkboxes, the selection, the
\* applied selection and Open/Closed as they are and does not invoke
\* onApply; when onApply runs, its argument holds the value of every
\* checked item, hidden or not.
C16_SearchKeepsSelection ==
    [][/\ widgetEvent' = "search" =>
             /\ UNCHANGED <<checked, currently_selected, submitData, expanded>>
             /\ ~onApplyFired'
       /\ onApplyFired' =>
             \A i \in Items :
                 (checked[i] /\ hide[i]) =>
                     \E k \in 1..Len(onApplyArg') : onApplyArg'[k] = Options[i].value]_vars

\* C16 witness: onApply has run with the value of a checked item that the
\* search had hidden.
C16_Witness ==
    /\ onApplyFired
    /\ checked[1] /\ hide[1]
    /\ onApplyArg = <<Options[1].value>>

\* Some construction-time check of the binding fails.
BindingFails ==
    \/ binding.selector # "string"
    \/ ~binding.form
    \/ ~binding.select
    \/ ~binding.option
    \/ ~binding.name

\* C17: with a failing binding nothing is built: no markup in the page, the
\* select not hidden, the form's submit input still there, no handler, and
\* onApply has not run.
C17_FailedBindingBuildsNothing ==
    BindingFails =>
        /\ ~inserted
        /\ ~selectHidden
        /\ formSubmit
        /\ ~handlers
        /\ ~onApplyFired
        /\ widgetEvent = "construct"

\* C17 witness: a form whose select has options but no name attribute, and
\* nothing built.
C17_Witness ==
    /\ binding = [ValidBinding EXCEPT !.name = FALSE]
    /\ ~inserted
    /\ formSubmit

\* C18: a failed load puts the error panel with the error's message in
\* the place of the results and ends without an exception; from then on no
\* step searches or throws, and the display stays as it is.
C18_LoadFailureShown ==
    [][/\ lastEvent' = "loadfail" =>
             /\ results'.kind = "error"
             /\ \E e \in LoadErrors :
                    \E k \in 1..Len(results'.message) : results'.message[k] = e
             /\ ~threw'
       /\ phase = "failed" =>
             /\ phase' = "failed"
             /\ ~searched'
             /\ ~threw'
             /\ UNCHANGED <<display, searchOffset, db>>]_vars

\* C18 witness: after the failed fetch the user has typed a term, and the
\* error panel is still what is shown.
C18_Witness ==
    /\ phase = "failed"
    /\ lastEvent = "typing"
    /\ input = <<"A">>
    /\ results = [kind |-> "error", items |-> <<>>,
                  message |-> <<"Kconfig database could not be loaded (",
                                "TypeError: Failed to fetch", ")">>]

\* C19: once assigned, searchOffset is a non-negative multiple of
\* MAX_RESULTS; Next adds MAX_RESULTS and Previous subtracts it, both
\* leaving the term; a keyup and a hashchange that searches set it to 0; a
\* popstate with a state object sets it to the stored offset.
C19_OffsetOnPageBoundary ==
    [][/\ searchOffset' # Undefined =>
             (searchOffset' >= 0 /\ searchOffset' % MAX_RESULTS = 0)
       /\ lastEvent' = "next" =>
             (searchOffset' = searchOffset + MAX_RESULTS /\ input' = input)
       /\ lastEvent' = "prev" =>
             (searchOffset' = searchOffset - MAX_RESULTS /\ input' = input)
       /\ lastEvent' = "keyup" => searchOffset' = 0
       /\ (lastEvent' = "hashchange" /\ searched') => searchOffset' = 0
       /\ (lastEvent' = "popstate" /\ lastPopState' # NoState) =>
             searchOffset' = lastPopState'[1].searchOffset]_vars

C21_NoSearchBeforeLoad ==
    /\ phase = "loading" =>
          /\ db = <<>>
          /\ searchOffset = Undefined
          /\ ~searched
          /\ pending = <<>>
          /\ results = Progress
    /\ searched => (phase # "loading" /\ db # <<>> /\ searchOffset # Undefined)
    /\ searchOffset = Undefined =>
          (navigation = "hidden" /\ navigationPrev /\ navigationNext)

\* C21 witness: while the fetch is pending the user has typed a term and
\* followed a link to a fragment, and nothing has searched.
C21_Witness ==
    /\ phase = "loading"
    /\ lastEvent = "navigate"
    /\ input = <<"A">>
    /\ CurrentHash = <<"!", "B", "!", "_", "A">>
    /\ ~searched
    /\ results = Progress

\* C22: on a step from Open to Closed at which the checked set differs
\* from the set last applied, onApply is invoked with the values of the
\* checked checkboxes in list order, and they are the applied selection
\* afterwards.
C22_ApplyOnEveryChange ==
    [][(expanded /\ ~expanded' /\ CheckedSet # AppliedSet) =>
          /\ onApplyFired'
          /\ onApplyArg' = CheckedValues(checked, 1)
          /\ submitData'.kind = "array"
          /\ submitData'.vals = CheckedValues(checked, 1)]_vars

\* C23: after a keyup in the search box the not-found message is shown iff
\* every item is hidden.
C23_NotFoundIffNoneShown ==
    widgetEvent = "search" => (~notFoundHide <=> \A i \in Items : hide[i])

=============================================================================
